---- MODULE Spec2Model ----
(***************************************************************************)
(* git-stats: the directory-tree clustering of repository file paths       *)
(* (PathTrie + Clusterer) that feeds the scan pipeline of cli/src/index.ts, *)
(* and the streaming stages behind it: the distinct-row counter of          *)
(* cli/src/util/dataset.ts and the record aggregators.                      *)
(*                                                                         *)
(* A path is the sequence of its "/"-separated segments, so                *)
(* "src/main/Foo.java" is <<"src", "main", "Foo.java">>.  A trie node is    *)
(* named by the path that leads to it; the root is <<>>.                    *)
(***************************************************************************)
EXTENDS Integers, Sequences, FiniteSets, TLC

\* the clustering pass
VARIABLES input, clusterMaxSize, clusterMinSize, trie, next, result, pc

\* distinctCount and the collector that drains it
VARIABLES source, sourceEnd, pulled, map, emitted, dedupPc

\* aggregateRawStats and the record stream it consumes
VARIABLES statStream, streamEnd, consumed, config, now, stats, builtinProps, aggPc

\* main and gatherStatsForRepo of the synchronous analyzer; extracted is a
\* history variable: every record a blame has produced so far; signals counts
\* the SIGINTs the process has received, pending those whose handler call is
\* still queued; reported tells whether the interruption was reported
VARIABLES repos, repoIdx, fileIdx, repoData, allData, extracted, signals, pending, sigintCaught, reported, legacyPc

\* the cluster bounds that getRepositoryFiles computes from the file count
VARIABLES fileCount, minClusterSize, maxClusterSize, boundsPc

\* execAsync: the chunks of the child's stdout, the lines pushed so far and
\* the unfinished line
VARIABLES chunks, delivered, exitCode, stdout, stdoutBuffer, execPc

\* parseArgs and loadConfig: the options on the command line, those of the
\* JSON config file, the parsed arguments and the merged configuration
VARIABLES cliOptions, fileCfg, args, merged, configPc

\* extractRawStatsForFile: the blame of the file, which parser reads it, the
\* lines of the trimmed output, the parser's position and current header
\* values, and the records produced
VARIABLES blame, parser, blameLines, lineIdx, currentUser, currentTime, lineStats, blamePc

\* runScan: the files git ls-files lists, the file whose extraction fails,
\* the clusters, the shuffled files, how many of them getRepositoryFiles has
\* yielded, the extractions in flight, the rows handed to distinctCount, the
\* cancellation flag and the position of the run
VARIABLES lsFiles, failure, filesClustered, filesShuffled, yielded, inFlight, scanRows, scanSigint, scanPc

clusterVars == <<input, clusterMaxSize, clusterMinSize, trie, next, result,
                 pc>>

dedupVars == <<source, sourceEnd, pulled, map, emitted, dedupPc>>

aggVars == <<statStream, streamEnd, consumed, config, now, stats,
             builtinProps, aggPc>>

legacyVars == <<repos, repoIdx, fileIdx, repoData, allData, extracted,
                signals, pending, sigintCaught, reported, legacyPc>>

boundsVars == <<fileCount, minClusterSize, maxClusterSize, boundsPc>>

execVars == <<chunks, delivered, exitCode, stdout, stdoutBuffer, execPc>>

configVars == <<cliOptions, fileCfg, args, merged, configPc>>

blameVars == <<blame, parser, blameLines, lineIdx, currentUser, currentTime,
               lineStats, blamePc>>

scanVars == <<lsFiles, failure, filesClustered, filesShuffled, yielded,
              inFlight, scanRows, scanSigint, scanPc>>

vars == <<clusterVars, dedupVars, aggVars, legacyVars, boundsVars, execVars,
          configVars, blameVars, scanVars>>

\* the stages other than the clustering pass
outsideCluster ==
  <<dedupVars, aggVars, legacyVars, boundsVars, execVars, configVars,
    blameVars, scanVars>>

\* the stages other than distinctCount
outsideDedup ==
  <<clusterVars, aggVars, legacyVars, boundsVars, execVars, configVars,
    blameVars, scanVars>>

\* the stages other than aggregateRawStats
outsideAgg ==
  <<clusterVars, dedupVars, legacyVars, boundsVars, execVars, configVars,
    blameVars, scanVars>>

\* the stages other than the synchronous analyzer
outsideLegacy ==
  <<clusterVars, dedupVars, aggVars, boundsVars, execVars, configVars,
    blameVars, scanVars>>

\* the stages other than the cluster bounds of getRepositoryFiles
outsideBounds ==
  <<clusterVars, dedupVars, aggVars, legacyVars, execVars, configVars,
    blameVars, scanVars>>

\* the stages other than execAsync
outsideExec ==
  <<clusterVars, dedupVars, aggVars, legacyVars, boundsVars, configVars,
    blameVars, scanVars>>

\* the stages other than parseArgs and loadConfig
outsideConfig ==
  <<clusterVars, dedupVars, aggVars, legacyVars, boundsVars, execVars,
    blameVars, scanVars>>

\* the stages other than extractRawStatsForFile
outsideBlame ==
  <<clusterVars, dedupVars, aggVars, legacyVars, boundsVars, execVars,
    configVars, scanVars>>

\* the stages other than runScan
outsideScan ==
  <<clusterVars, dedupVars, aggVars, legacyVars, boundsVars, execVars,
    configVars, blameVars>>

\* an object literal {} before any property is set
emptyObject == [k \in {} |-> 0]

\* distinctCount at rest
dedupIdle ==
  /\ source = <<>>
  /\ sourceEnd = "done"
  /\ pulled = 0
  /\ map = <<>>
  /\ emitted = <<>>
  /\ dedupPc = "idle"

\* aggregateRawStats at rest
aggIdle ==
  /\ statStream = <<>>
  /\ streamEnd = "done"
  /\ consumed = 0
  /\ config = [groupBy |-> "user", thenBy |-> "date", dayBuckets |-> <<>>]
  /\ now = 0
  /\ stats = emptyObject
  /\ builtinProps = emptyObject
  /\ aggPc = "idle"

\* the synchronous analyzer at rest
legacyIdle ==
  /\ repos = <<>>
  /\ repoIdx = 1
  /\ fileIdx = 1
  /\ repoData = <<>>
  /\ allData = <<>>
  /\ extracted = {}
  /\ signals = 0
  /\ pending = 0
  /\ sigintCaught = FALSE
  /\ reported = FALSE
  /\ legacyPc = "idle"

\* the cluster bounds of getRepositoryFiles at rest
boundsIdle ==
  /\ fileCount = 0
  /\ minClusterSize = 0
  /\ maxClusterSize = 0
  /\ boundsPc = "idle"

\* execAsync at rest
execIdle ==
  /\ chunks = <<>>
  /\ delivered = 0
  /\ exitCode = 0
  /\ stdout = <<>>
  /\ stdoutBuffer = <<>>
  /\ execPc = "idle"

\* parseArgs and loadConfig at rest
configIdle ==
  /\ cliOptions = <<>>
  /\ fileCfg = <<>>
  /\ args = <<>>
  /\ merged = <<>>
  /\ configPc = "idle"

\* extractRawStatsForFile at rest
blameIdle ==
  /\ blame = <<>>
  /\ parser = "none"
  /\ blameLines = <<>>
  /\ lineIdx = 0
  /\ currentUser = ""
  /\ currentTime = 0
  /\ lineStats = <<>>
  /\ blamePc = "idle"

\* runScan at rest
scanIdle ==
  /\ lsFiles = <<>>
  /\ failure = [path |-> <<>>, kind |-> "none"]
  /\ filesClustered = <<>>
  /\ filesShuffled = <<>>
  /\ yielded = 0
  /\ inFlight = <<>>
  /\ scanRows = <<>>
  /\ scanSigint = FALSE
  /\ scanPc = "idle"

outsideClusterIdle ==
  /\ dedupIdle
  /\ aggIdle
  /\ legacyIdle
  /\ boundsIdle
  /\ execIdle
  /\ configIdle
  /\ blameIdle
  /\ scanIdle

----------------------------------------------------------------------------
(* Bounds of the model. *)

\* longest generated input list
MaxFiles == 4

\* largest generated maxSize / minSize
MaxBound == 3

----------------------------------------------------------------------------
(* Segment names and their order. *)

\* Every segment name used by the inputs below, in the order of the default
\* string comparison (by code unit: "." < digits < upper case < lower case).
SegOrder ==
  << ".gitignore", "Bar.java", "BarTest.java", "Baz.java", "BazTest.java",
     "F0.java", "F1.java", "F2.java", "F3.java", "F4.java", "F5.java",
     "F6.java", "F7.java", "F8.java", "Foo.java", "FooTest.java",
     "G00.java", "G01.java", "G02.java", "G03.java", "G04.java", "G05.java",
     "G06.java", "G07.java", "G08.java", "G09.java", "G10.java", "G11.java",
     "G12.java", "G13.java", "G14.java", "G15.java", "G16.java", "G17.java",
     "G18.java", "G19.java", "G20.java", "Iop.java",
     "Jkl.java", "Mko.java", "Xyz.java", "a", "b", "bar", "bc", "buz", "c",
     "config.properties", "d0", "d1", "d2", "d3", "d4", "d5", "d6", "d7",
     "f", "fgh", "foo", "java", "main", "resources", "src", "test", "x", "y" >>

segRank(s) == CHOOSE k \in 1..Len(SegOrder) : SegOrder[k] = s

segLess(s, t) == segRank(s) < segRank(t)

isPrefix(p, q) == Len(p) <= Len(q) /\ SubSeq(q, 1, Len(p)) = p

inSeq(x, s) == \E k \in 1..Len(s) : s[k] = x

----------------------------------------------------------------------------
(* PathTrie *)

\* a node that has just been created
newNode == [weight |-> 0, children |-> <<>>]

\* the trie after construction: the root alone
emptyTrie == [n \in {<<>>} |-> newNode]

\* the nodes on the root-to-leaf chain of a path
chain(path) == {SubSeq(path, 1, k) : k \in 0..Len(path)}

\* variant of insert that leaves the weight of the root as it is
insertBelowRoot(t, path) ==
  [n \in DOMAIN t \cup chain(path) |->
     IF n \in chain(path)
     THEN LET old == IF n \in DOMAIN t THEN t[n] ELSE newNode
              kids == IF Len(n) < Len(path) /\ ~inSeq(path[Len(n) + 1], old.children)
                      THEN Append(old.children, path[Len(n) + 1])
                      ELSE old.children
          IN [weight |-> IF n = <<>> THEN old.weight ELSE old.weight + 1,
              children |-> kids]
     ELSE t[n]]

\* variant of insert: the empty path is inserted like any other
insertUnguarded(t, path) ==
  [n \in DOMAIN t \cup chain(path) |->
     IF n \in chain(path)
     THEN LET old == IF n \in DOMAIN t THEN t[n] ELSE newNode
              kids == IF Len(n) < Len(path) /\ ~inSeq(path[Len(n) + 1], old.children)
                      THEN Append(old.children, path[Len(n) + 1])
                      ELSE old.children
          IN [weight |-> old.weight + 1, children |-> kids]
     ELSE t[n]]

\* insert(path): creates the missing nodes of the chain and increments the
\* weight of every node on it; a node keeps its children in insertion order.
\* The empty string (the path with no segment) is rejected: the trie is left
\* as it was.
insert(t, path) ==
  IF path = <<>>
  THEN t
  ELSE [n \in DOMAIN t \cup chain(path) |->
          IF n \in chain(path)
          THEN LET old == IF n \in DOMAIN t THEN t[n] ELSE newNode
                   kids == IF Len(n) < Len(path) /\ ~inSeq(path[Len(n) + 1], old.children)
                           THEN Append(old.children, path[Len(n) + 1])
                           ELSE old.children
               IN [weight |-> old.weight + 1, children |-> kids]
          ELSE t[n]]

RECURSIVE buildTrie(_, _)
\* construction: a single pass over the input list
buildTrie(files, k) ==
  IF k = 0 THEN emptyTrie ELSE insert(buildTrie(files, k - 1), files[k])

isLeaf(t, n) == t[n].children = <<>>

\* the file paths that end at or below node n
filesBelow(t, n) == {p \in DOMAIN t : isPrefix(n, p) /\ isLeaf(t, p)}

----------------------------------------------------------------------------
(* Clusterer *)

\* variant of sortedChildren: the children in insertion order
insertionOrderChildren(t, n) == t[n].children

\* variant of sortedChildren: the children in descending order
descendingChildren(t, n) == SortSeq(t[n].children, LAMBDA a, b : segLess(b, a))

\* a node's children in sorted-segment order
sortedChildren(t, n) == SortSeq(t[n].children, segLess)

\* the single cluster of a whole subtree, labelled by the node's path
collapse(t, n) == [path |-> n, files |-> filesBelow(t, n), weight |-> t[n].weight]

\* variant of fitsCap that lets one file too many collapse
fitsCapPlusOne(t, n, maxSize) == t[n].weight <= maxSize + 1

\* variant of fitsCap that refuses a node of exactly maxSize
fitsCapStrict(t, n, maxSize) == t[n].weight < maxSize

\* cap rule: the node's merged weight fits maxSize
fitsCap(t, n, maxSize) == t[n].weight <= maxSize

\* variant of isFlat that never recognises a flat directory
isFlatNever(t, n) == FALSE

\* a flat directory: every child of the node is a leaf
isFlat(t, n) == \A k \in 1..Len(t[n].children) : isLeaf(t, Append(n, t[n].children[k]))

isUndersized(c, minSize) == c.weight < minSize

\* the empty group that the undersized candidates of node n are combined into
emptyGroup(n) == [path |-> n, files |-> {}, weight |-> 0]

addToGroup(g, c) ==
  [path |-> g.path, files |-> g.files \cup c.files, weight |-> g.weight + c.weight]

RECURSIVE combine(_, _, _, _)
\* merge-up rule over the undersized candidates small[k..] of node n, in
\* sibling order: a group grows until its weight reaches minSize; the last
\* group, when still undersized, is handed to the parent as it is.
combine(small, k, group, minSize) ==
  IF k > Len(small)
  THEN IF group.files = {} THEN <<>> ELSE <<group>>
  ELSE LET g == addToGroup(group, small[k])
       IN IF g.weight >= minSize
          THEN <<g>> \o combine(small, k + 1, emptyGroup(group.path), minSize)
          ELSE combine(small, k + 1, g, minSize)

\* variant of mergeUp that forgets the undersized candidates
mergeUpDropsLeftovers(cands, n, minSize) ==
  SelectSeq(cands, LAMBDA c : ~isUndersized(c, minSize))

\* variant of mergeUp that hands every candidate on as it came
mergeUpWithoutCombining(cands, n, minSize) == cands

\* the candidates of node n after the merge-up rule: the clusters already
\* formed below n unchanged and in order, then the groups formed at n
mergeUp(cands, n, minSize) ==
  SelectSeq(cands, LAMBDA c : ~isUndersized(c, minSize))
    \o combine(SelectSeq(cands, LAMBDA c : isUndersized(c, minSize)), 1,
               emptyGroup(n), minSize)

RECURSIVE cluster(_, _, _, _)
RECURSIVE childClusters(_, _, _, _, _, _)

\* the candidate lists of the children kids[k..] of node n, concatenated
childClusters(t, n, kids, k, maxSize, minSize) ==
  IF k > Len(kids)
  THEN <<>>
  ELSE cluster(t, Append(n, kids[k]), maxSize, minSize)
         \o childClusters(t, n, kids, k + 1, maxSize, minSize)

\* post-order visit of node n: the list of clusters of its subtree
cluster(t, n, maxSize, minSize) ==
  IF isLeaf(t, n) \/ fitsCap(t, n, maxSize) \/ isFlat(t, n)
  THEN <<collapse(t, n)>>
  ELSE mergeUp(childClusters(t, n, sortedChildren(t, n), 1, maxSize, minSize),
               n, minSize)

\* cluster(filePaths, maxSize, minSize) on the trie built from filePaths
clusterTrie(t, maxSize, minSize) ==
  IF isLeaf(t, <<>>) THEN <<>> ELSE cluster(t, <<>>, maxSize, minSize)

clusterFiles(files, maxSize, minSize) ==
  clusterTrie(buildTrie(files, Len(files)), maxSize, minSize)

----------------------------------------------------------------------------
(* Inputs *)

\* file paths of the generated inputs: a file at the root, a directory with
\* files and a flat subdirectory, and a second flat directory
PathUniverse ==
  { <<"f">>, <<"a", "x">>, <<"a", "y">>, <<"a", "b", "x">>, <<"a", "b", "y">>,
    <<"c", "x">>, <<"c", "y">> }

GeneratedInputs == UNION {[1..n -> PathUniverse] : n \in 0..MaxFiles}

\* file paths of the inputs with malformed entries: the empty string is the
\* path <<>>
MalformedUniverse ==
  { <<>>, <<"f">>, <<"a", "x">>, <<"a", "y">>, <<"c", "x">> }

MalformedInputs == UNION {[1..n -> MalformedUniverse] : n \in 0..MaxFiles}

\* the file lists of the clustering tests, with the bounds they are run with
MultipleFiles ==
  << <<"src", "main", "java", "Bar.java">>,
     <<"src", "main", "java", "Baz.java">>,
     <<"src", "main", "java", "Foo.java">>,
     <<"src", "main", "resources", "config.properties">>,
     <<"src", "test", "java", "BarTest.java">>,
     <<"src", "test", "java", "BazTest.java">>,
     <<"src", "test", "java", "FooTest.java">>,
     <<".gitignore">> >>

PerFile ==
  << <<"src", "main", "java", "Bar.java">>,
     <<"src", "main", "java", "Baz.java">>,
     <<"src", "main", "java", "Foo.java">>,
     <<"src", "main", "java", "Iop.java">>,
     <<"src", "main", "java", "Jkl.java">>,
     <<"src", "main", "java", "Mko.java">>,
     <<"src", "main", "java", "Xyz.java">> >>

DifferentDepth ==
  << <<"src", "main", "java", "foo", "bar", "Foo.java">>,
     <<"src", "main", "java", "foo", "bar", "Bar.java">>,
     <<"src", "main", "java", "foo", "bar", "Baz.java">>,
     <<"src", "main", "java", "foo", "bar", "Xyz.java">>,
     <<"src", "main", "java", "buz", "Iop.java">>,
     <<"src", "main", "java", "fgh", "Jkl.java">>,
     <<"src", "Mko.java">> >>

ManyLeftovers ==
  << <<"d0", "d1", "d2", "d3", "F4.java">>,
     <<"d0", "d1", "d2", "d3", "d4", "F5.java">>,
     <<"d0", "d1", "d2", "d3", "d4", "d5", "F6.java">>,
     <<"d0", "d1", "d2", "d3", "d4", "d5", "d6", "F7.java">>,
     <<"d0", "d1", "d2", "d3", "d4", "d5", "d6", "d7", "F8.java">>,
     <<"d0", "d1", "F2.java">>,
     <<"d0", "d1", "d2", "F3.java">>,
     <<"F0.java">>,
     <<"d0", "F1.java">> >>

TestCases ==
  { [files |-> MultipleFiles, maxSize |-> 4, minSize |-> 2],
    [files |-> PerFile, maxSize |-> 2, minSize |-> 1],
    [files |-> DifferentDepth, maxSize |-> 5, minSize |-> 2],
    [files |-> ManyLeftovers, maxSize |-> 5, minSize |-> 2] }

reversed(s) == [k \in 1..Len(s) |-> s[Len(s) + 1 - k]]

\* the odd positions of s in order, then the even positions from the back
interleaved(s) ==
  [k \in 1..Len(s) |->
     IF 2 * k - 1 <= Len(s) THEN s[2 * k - 1] ELSE s[2 * (Len(s) - k + 1)]]

\* orders in which the tests' shuffle may hand a file list to clusterFiles
shuffles(s) == {s, reversed(s), interleaved(s), reversed(interleaved(s))}

isPermutation(s, u) ==
  /\ Len(s) = Len(u)
  /\ \A x \in {s[k] : k \in 1..Len(s)} \cup {u[k] : k \in 1..Len(u)} :
       Cardinality({k \in 1..Len(s) : s[k] = x}) = Cardinality({k \in 1..Len(u) : u[k] = x})

----------------------------------------------------------------------------
(* The run of one clusterFiles call *)

Init ==
  /\ \/ /\ input \in GeneratedInputs
        /\ clusterMaxSize \in 1..MaxBound
        /\ clusterMinSize \in 1..MaxBound
     \/ \E tc \in TestCases :
          /\ input \in shuffles(tc.files)
          /\ clusterMaxSize = tc.maxSize
          /\ clusterMinSize = tc.minSize
  /\ trie = emptyTrie
  /\ next = 1
  /\ result = <<>>
  /\ pc = "build"
  /\ outsideClusterIdle

\* one iteration of the construction pass
InsertFile ==
  /\ pc = "build"
  /\ next <= Len(input)
  /\ trie' = insert(trie, input[next])
  /\ next' = next + 1
  /\ UNCHANGED <<input, clusterMaxSize, clusterMinSize, result, pc>>
  /\ UNCHANGED outsideCluster

\* the post-order clustering of the finished trie
Cluster ==
  /\ pc = "build"
  /\ next > Len(input)
  /\ result' = clusterTrie(trie, clusterMaxSize, clusterMinSize)
  /\ pc' = "done"
  /\ UNCHANGED <<input, clusterMaxSize, clusterMinSize, trie, next>>
  /\ UNCHANGED outsideCluster

Next == InsertFile \/ Cluster

Spec == Init /\ [][Next]_vars

\* a clustering pass over a list that may hold empty strings
InitMalformed ==
  /\ input \in MalformedInputs
  /\ clusterMaxSize \in 1..MaxBound
  /\ clusterMinSize \in 1..MaxBound
  /\ trie = emptyTrie
  /\ next = 1
  /\ result = <<>>
  /\ pc = "build"
  /\ outsideClusterIdle

SpecMalformed == InitMalformed /\ [][Next]_vars

----------------------------------------------------------------------------
(* Properties *)

done == pc = "done"

\* the file sets of the clusters, in output order
fileSets(cs) == [k \in 1..Len(cs) |-> cs[k].files]

seqRange(s) == {s[k] : k \in 1..Len(s)}

lastOf(s) == s[Len(s)]

\* no path occurs twice in the list
isDuplicateFree(s) == \A j, k \in 1..Len(s) : s[j] = s[k] => j = k

\* the directory a file path lies in
parentOf(p) == SubSeq(p, 1, Len(p) - 1)

\* every file of the set is a direct child of one and the same directory
sameDirectory(fs) == \A p \in fs, q \in fs : parentOf(p) = parentOf(q)

isProperPrefix(p, q) == isPrefix(p, q) /\ Len(p) < Len(q)

\* the first position at which two labels differ, neither being a prefix of
\* the other
diverge(p, q) == ~isPrefix(p, q) /\ ~isPrefix(q, p)

firstDifference(p, q) ==
  CHOOSE k \in 1..Len(p) : k <= Len(q) /\ p[k] # q[k] /\ SubSeq(p, 1, k - 1) = SubSeq(q, 1, k - 1)

\* a total order of the paths: segment by segment, a prefix first
pathLess(p, q) ==
  \/ isProperPrefix(p, q)
  \/ diverge(p, q) /\ segLess(p[firstDifference(p, q)], q[firstDifference(p, q)])

\* the input list in one fixed order
canonical(files) == SortSeq(files, pathLess)

----------------------------------------------------------------------------
\* C1: the clusters returned for a file list F partition F exactly: every
\* cluster is non-empty, no file is in two clusters, every file of F is in a
\* cluster and no other path is; an empty F gives an empty cluster list.
ExactPartition ==
  done =>
    /\ \A k \in 1..Len(result) : result[k].files # {}
    /\ \A j, k \in 1..Len(result) : j # k => result[j].files \cap result[k].files = {}
    /\ UNION {result[k].files : k \in 1..Len(result)} = seqRange(input)
    /\ (input = <<>> => result = <<>>)

\* a list of several files has been split into several clusters
ExactPartitionWitness ==
  /\ done
  /\ Len(input) >= 3
  /\ Len(result) >= 2
  /\ \E k \in 1..Len(result) : Cardinality(result[k].files) >= 2

\* C2: the clusters (labels, file sets, weights and their sequence) do not
\* depend on the order of the input list: the list in any order gives what
\* the same list gives in one fixed order.
OrderIndependent ==
  done => result = clusterFiles(canonical(input), clusterMaxSize, clusterMinSize)

\* a list that is not in the fixed order has been clustered into several clusters
OrderIndependentWitness ==
  /\ done
  /\ input # canonical(input)
  /\ Len(result) >= 2

MultipleFilesClusters ==
  (done /\ isPermutation(input, MultipleFiles)
        /\ clusterMaxSize = 4 /\ clusterMinSize = 2) =>
    /\ fileSets(result) =
         << {MultipleFiles[k] : k \in 1..4},
            {MultipleFiles[k] : k \in 5..7},
            {MultipleFiles[8]} >>
    /\ result[3].weight = 1

\* the eight files were clustered from a shuffled list
MultipleFilesWitness ==
  /\ done
  /\ input = interleaved(MultipleFiles)
  /\ clusterMaxSize = 4
  /\ clusterMinSize = 2
  /\ Len(result) = 3

\* C6: the clusters already formed below a node that cannot collapse are
\* returned unchanged and the undersized leftovers are carried upward and
\* grouped at an ancestor: with maxSize = 5, minSize = 2 the 'many leftovers'
\* chain gives [F4..F8], [F2, F3], [F0, F1], and the 'different depth' files
\* give the four-file cluster and one cluster of the three remaining files.
LeftoverPropagation ==
  (done /\ clusterMaxSize = 5 /\ clusterMinSize = 2) =>
    /\ isPermutation(input, ManyLeftovers) =>
         fileSets(result) =
           << {ManyLeftovers[k] : k \in 1..5},
              {ManyLeftovers[k] : k \in 6..7},
              {ManyLeftovers[k] : k \in 8..9} >>
    /\ isPermutation(input, DifferentDepth) =>
         fileSets(result) =
           << {DifferentDepth[k] : k \in 1..4},
              {DifferentDepth[k] : k \in 5..7} >>

\* C7: the clusters come in post-order of their labels: a node's label never
\* comes before the label of one of its descendants, and labels below
\* different children of a node come in the sorted order of those children.
PostOrder ==
  done =>
    \A j, k \in 1..Len(result) :
      j < k =>
        /\ ~isProperPrefix(result[j].path, result[k].path)
        /\ diverge(result[j].path, result[k].path) =>
             pathLess(result[j].path, result[k].path)

\* clusters labelled below two different children of a node, followed by a
\* cluster labelled by an ancestor of both
PostOrderWitness ==
  /\ done
  /\ \E i, j, k \in 1..Len(result) :
       /\ i < j /\ j < k
       /\ diverge(result[i].path, result[j].path)
       /\ isProperPrefix(result[k].path, result[i].path)
       /\ isProperPrefix(result[k].path, result[j].path)

\* C8: files that are all direct children of one directory, whatever the
\* bounds, come back as exactly one cluster that holds all of them.
FlatDirectory ==
  (done /\ input # <<>> /\ sameDirectory(seqRange(input))) =>
    /\ Len(result) = 1
    /\ result[1].files = seqRange(input)

\* the seven sibling files of the 'per file' test, with maxSize = 2
FlatDirectoryWitness ==
  /\ done
  /\ isPermutation(input, PerFile)
  /\ clusterMaxSize = 2
  /\ clusterMinSize = 1
  /\ Cardinality(result[1].files) = 7

\* C9: a list of exactly one path, whatever the bounds, gives exactly one
\* cluster, which holds that file and has weight 1.
Singleton ==
  (done /\ Len(input) = 1) =>
    /\ Len(result) = 1
    /\ result[1].files = {input[1]}
    /\ result[1].weight = 1

\* a single file in a subdirectory, clustered with minSize > 1
SingletonWitness ==
  /\ done
  /\ Len(input) = 1
  /\ Len(input[1]) >= 2
  /\ clusterMinSize > 1
  /\ Len(result) = 1

\* the paths inserted so far
inserted == {input[k] : k \in 1..(next - 1)}

\* C10: at any point of the construction, also after the same path was
\* inserted twice, the weight of every node is the number of distinct
\* inserted file paths that end at or below it, which is the number of
\* leaves of its subtree.
WeightIsFileCount ==
  \A n \in DOMAIN trie :
    /\ trie[n].weight = Cardinality({p \in inserted : isPrefix(n, p)})
    /\ trie[n].weight = Cardinality(filesBelow(trie, n) \ {<<>>})

\* the list without its empty strings
withoutEmpty(files) == SelectSeq(files, LAMBDA p : p # <<>>)

----------------------------------------------------------------------------
(* distinctCount (cli/src/util/dataset.ts) *)

\* longest generated row stream
MaxRows == 3

\* the clustering pass does not run
clusterIdle ==
  /\ input = <<>>
  /\ clusterMaxSize = 1
  /\ clusterMinSize = 1
  /\ trie = emptyTrie
  /\ next = 1
  /\ result = <<>>
  /\ pc = "idle"

\* every stage but one at rest
outsideDedupIdle ==
  /\ clusterIdle
  /\ aggIdle
  /\ legacyIdle
  /\ boundsIdle
  /\ execIdle
  /\ configIdle
  /\ blameIdle
  /\ scanIdle

outsideAggIdle ==
  /\ clusterIdle
  /\ dedupIdle
  /\ legacyIdle
  /\ boundsIdle
  /\ execIdle
  /\ configIdle
  /\ blameIdle
  /\ scanIdle

outsideLegacyIdle ==
  /\ clusterIdle
  /\ dedupIdle
  /\ aggIdle
  /\ boundsIdle
  /\ execIdle
  /\ configIdle
  /\ blameIdle
  /\ scanIdle

outsideBoundsIdle ==
  /\ clusterIdle
  /\ dedupIdle
  /\ aggIdle
  /\ legacyIdle
  /\ execIdle
  /\ configIdle
  /\ blameIdle
  /\ scanIdle

outsideExecIdle ==
  /\ clusterIdle
  /\ dedupIdle
  /\ aggIdle
  /\ legacyIdle
  /\ boundsIdle
  /\ configIdle
  /\ blameIdle
  /\ scanIdle

outsideConfigIdle ==
  /\ clusterIdle
  /\ dedupIdle
  /\ aggIdle
  /\ legacyIdle
  /\ boundsIdle
  /\ execIdle
  /\ blameIdle
  /\ scanIdle

outsideBlameIdle ==
  /\ clusterIdle
  /\ dedupIdle
  /\ aggIdle
  /\ legacyIdle
  /\ boundsIdle
  /\ execIdle
  /\ configIdle
  /\ scanIdle

outsideScanIdle ==
  /\ clusterIdle
  /\ dedupIdle
  /\ aggIdle
  /\ legacyIdle
  /\ boundsIdle
  /\ execIdle
  /\ configIdle
  /\ blameIdle

\* JavaScript values of a row's fields
jsString(s) == [type |-> "string", value |-> s]

jsNull == [type |-> "null", value |-> ""]

jsUndefined == [type |-> "undefined", value |-> ""]

\* JSON.stringify of an array element: a string is quoted, undefined and
\* null are both written as null
stringifyElement(v) ==
  IF v.type = "string" THEN "\"" \o v.value \o "\"" ELSE "null"

RECURSIVE joinElements(_, _)
joinElements(row, k) ==
  IF k = 0 THEN ""
  ELSE IF k = 1 THEN stringifyElement(row[1])
  ELSE joinElements(row, k - 1) \o "," \o stringifyElement(row[k])

\* JSON.stringify(row) of a row that is an array
JSONstringify(row) == "[" \o joinElements(row, Len(row)) \o "]"

\* the Map keeps its entries in the order their keys were first set
mapHas(m, key) == \E k \in 1..Len(m) : m[k].key = key

mapIndex(m, key) == CHOOSE k \in 1..Len(m) : m[k].key = key

\* variant of countRow: a counted row moves to the end of the Map
countRowMovesToEnd(m, row) ==
  LET key == JSONstringify(row)
  IN IF mapHas(m, key)
     THEN LET k == mapIndex(m, key)
          IN Append(SubSeq(m, 1, k - 1) \o SubSeq(m, k + 1, Len(m)),
                    [m[k] EXCEPT !.count = @ + 1])
     ELSE Append(m, [key |-> key, row |-> row, count |-> 1])

\* the body of the for-await loop; a row that is an array has no count
\* property, so it counts 1
countRow(m, row) ==
  LET key == JSONstringify(row)
  IN IF mapHas(m, key)
     THEN [m EXCEPT ![mapIndex(m, key)].count = @ + 1]
     ELSE Append(m, [key |-> key, row |-> row, count |-> 1])

\* rows [author, lang]; the scan leaves a field it cannot fill undefined
RowUniverse ==
  { <<jsString(a), l>> :
      a \in {"alice", "bob"}, l \in {jsString("ts"), jsUndefined, jsNull} }

RowInputs == UNION {[1..n -> RowUniverse] : n \in 0..MaxRows}

\* collect(distinctCount(source)) over a source that delivers its rows and
\* then ends or throws
InitDedup ==
  /\ source \in RowInputs
  /\ sourceEnd \in {"done", "throws"}
  /\ pulled = 0
  /\ map = <<>>
  /\ emitted = <<>>
  /\ dedupPc = "pulling"
  /\ outsideDedupIdle

\* variant of DedupPull: a row is yielded with count 1 when it is first seen
DedupPullEager ==
  /\ dedupPc = "pulling"
  /\ pulled < Len(source)
  /\ map' = countRow(map, source[pulled + 1])
  /\ pulled' = pulled + 1
  /\ emitted' = IF mapHas(map, JSONstringify(source[pulled + 1]))
                THEN emitted
                ELSE Append(emitted, <<source[pulled + 1], 1>>)
  /\ UNCHANGED <<source, sourceEnd, dedupPc>>
  /\ UNCHANGED outsideDedup

\* one iteration of the for-await loop
DedupPull ==
  /\ dedupPc = "pulling"
  /\ pulled < Len(source)
  /\ map' = countRow(map, source[pulled + 1])
  /\ pulled' = pulled + 1
  /\ UNCHANGED <<source, sourceEnd, emitted, dedupPc>>
  /\ UNCHANGED outsideDedup

\* the source is exhausted: the for-await loop ends
DedupSourceDone ==
  /\ dedupPc = "pulling"
  /\ pulled = Len(source)
  /\ sourceEnd = "done"
  /\ dedupPc' = "yielding"
  /\ UNCHANGED <<source, sourceEnd, pulled, map, emitted>>
  /\ UNCHANGED outsideDedup

\* the source throws: the generator throws out of the for-await loop and
\* the collector's promise is rejected
DedupSourceThrows ==
  /\ dedupPc = "pulling"
  /\ pulled = Len(source)
  /\ sourceEnd = "throws"
  /\ dedupPc' = "rejected"
  /\ UNCHANGED <<source, sourceEnd, pulled, map, emitted>>
  /\ UNCHANGED outsideDedup

\* one iteration of the loop over map.values(); the collector pushes the pair
DedupYield ==
  /\ dedupPc = "yielding"
  /\ Len(emitted) < Len(map)
  /\ emitted' = Append(emitted, <<map[Len(emitted) + 1].row, map[Len(emitted) + 1].count>>)
  /\ UNCHANGED <<source, sourceEnd, pulled, map, dedupPc>>
  /\ UNCHANGED outsideDedup

\* the generator returns: the collector resolves with the pairs it pushed
DedupReturn ==
  /\ dedupPc = "yielding"
  /\ Len(emitted) = Len(map)
  /\ dedupPc' = "done"
  /\ UNCHANGED <<source, sourceEnd, pulled, map, emitted>>
  /\ UNCHANGED outsideDedup

NextDedup ==
  DedupPull \/ DedupSourceDone \/ DedupSourceThrows \/ DedupYield \/ DedupReturn

SpecDedup == InitDedup /\ [][NextDedup]_vars

----------------------------------------------------------------------------
(* Properties of distinctCount *)

dedupDone == dedupPc = "done"

RECURSIVE sumCounts(_, _)
sumCounts(pairs, k) ==
  IF k = 0 THEN 0 ELSE sumCounts(pairs, k - 1) + pairs[k][2]

\* number of occurrences of a tuple in the source
occurrences(row) == Cardinality({i \in 1..Len(source) : source[i] = row})

\* position of the first occurrence of a tuple in the source
firstOccurrence(row) ==
  CHOOSE i \in 1..Len(source) :
    /\ source[i] = row
    /\ \A j \in 1..(i - 1) : source[j] # row

\* C12: after the stream is drained the counts sum to the number of input
\* rows, each count is the number of occurrences of its tuple, and no tuple
\* is emitted twice.
CountsAreOccurrences ==
  dedupDone =>
    /\ sumCounts(emitted, Len(emitted)) = Len(source)
    /\ \A k \in 1..Len(emitted) : emitted[k][2] = occurrences(emitted[k][1])
    /\ \A j, k \in 1..Len(emitted) : j # k => emitted[j][1] # emitted[k][1]

\* C13: rows are folded into one pair exactly when they are deep-equal: the
\* emitted tuples are the distinct rows of the source, so two rows that
\* differ in a field (undefined against null) give two pairs.
DeepEquality ==
  dedupDone =>
    /\ {emitted[k][1] : k \in 1..Len(emitted)} = {source[i] : i \in 1..Len(source)}
    /\ Len(emitted) = Cardinality({source[i] : i \in 1..Len(source)})

\* C14: nothing is yielded before the source is exhausted; every pull
\* precedes the first yielded pair.
BlockingBarrier ==
  /\ emitted # <<>> => (pulled = Len(source) /\ dedupPc \in {"yielding", "done"})
  /\ dedupPc = "pulling" => emitted = <<>>

BlockingBarrierWitness ==
  /\ dedupPc = "yielding"
  /\ Len(source) = MaxRows
  /\ Len(emitted) = 1
  /\ Len(map) >= 2

\* C15: the pairs come out in the order of the first occurrence of their
\* tuples in the source.
FirstOccurrenceOrder ==
  \A j, k \in 1..Len(emitted) :
    j < k => firstOccurrence(emitted[j][1]) < firstOccurrence(emitted[k][1])

FirstOccurrenceOrderWitness ==
  /\ dedupDone
  /\ Len(emitted) >= 2
  /\ emitted[1][2] >= 2
  /\ source[Len(source)] = emitted[1][1]

----------------------------------------------------------------------------
(* aggregateRawStats (streaming analyzer) and aggregateData (HTML report) *)

\* longest generated record stream
MaxRecords == 3

\* 60 * 60 * 24
SecondsPerDay == 86400

\* Date.now() is in milliseconds, a record's time in seconds
MsPerSecond == 1000

\* the value of ++ applied to what is not a number; no count is negative
NaN == -1

\* the property names that every object literal inherits, as far as they
\* occur among the keys of the inputs; each names a built-in function
inheritedNames == {"constructor", "toString"}

\* obj[key] = value
setProp(obj, key, value) ==
  [k \in DOMAIN obj \cup {key} |-> IF k = key THEN value ELSE obj[k]]

\* !obj[key] is false: an own count other than 0 and NaN, or an inherited
\* function
isTruthy(obj, key) ==
  IF key \in DOMAIN obj THEN obj[key] \notin {0, NaN} ELSE key \in inheritedNames

\* the value that obj[key]++ stores
incremented(obj, key) ==
  IF key \in DOMAIN obj /\ obj[key] # NaN THEN obj[key] + 1 ELSE NaN

\* item[groupBy]: a property the record does not have reads undefined, which
\* as a property key is the string "undefined"
itemProperty(item, name) ==
  IF name \in DOMAIN item THEN item[name] ELSE "undefined"

\* variant of withinDays: a record exactly d days old is too old for d
withinDaysStrict(nowMs, time, d) ==
  nowMs - time * MsPerSecond < d * SecondsPerDay * MsPerSecond

\* ageInDays <= d, for ageInDays = (now - time) / (60 * 60 * 24) and
\* now = Date.now() / 1000; nowMs is Date.now()
withinDays(nowMs, time, d) ==
  nowMs - time * MsPerSecond <= d * SecondsPerDay * MsPerSecond

RECURSIVE dateKey(_, _, _, _)
\* the loop over dayBuckets, from its k-th element on
dateKey(nowMs, time, dayBuckets, k) ==
  IF k > Len(dayBuckets) THEN "Older"
  ELSE IF withinDays(nowMs, time, dayBuckets[k])
       THEN "Last " \o ToString(dayBuckets[k]) \o " days"
       ELSE dateKey(nowMs, time, dayBuckets, k + 1)

getSecondaryKey(item, cfg, nowMs) ==
  CASE cfg.thenBy = "repo" -> item.repoName
    [] cfg.thenBy = "lang" -> item.lang
    [] cfg.thenBy = "date" -> dateKey(nowMs, item.time, cfg.dayBuckets, 1)

\* variant of aggregateItem: a missing cell starts its row anew
aggregateItemNewRow(st, item, cfg, nowMs) ==
  LET primaryKey == itemProperty(item, cfg.groupBy)
      secondaryKey == getSecondaryKey(item, cfg, nowMs)
      row == IF primaryKey \in DOMAIN st.stats /\ secondaryKey \in DOMAIN st.stats[primaryKey]
             THEN st.stats[primaryKey]
             ELSE setProp(emptyObject, secondaryKey, 0)
  IN [st EXCEPT !.stats = setProp(st.stats, primaryKey,
                                  setProp(row, secondaryKey, row[secondaryKey] + 1))]

\* the body of the for-await loop.  stats[primaryKey] is the table's own row,
\* or else the built-in function that the table inherits under that name, or
\* else a new row; the cell is reset when it reads falsy and then incremented.
\* What is stored on a built-in function is not in the table.
aggregateItem(st, item, cfg, nowMs) ==
  LET primaryKey == itemProperty(item, cfg.groupBy)
      secondaryKey == getSecondaryKey(item, cfg, nowMs)
      own == primaryKey \in DOMAIN st.stats \/ primaryKey \notin inheritedNames
      stats1 == IF primaryKey \in DOMAIN st.stats \/ primaryKey \in inheritedNames
                THEN st.stats
                ELSE setProp(st.stats, primaryKey, emptyObject)
      row0 == IF own THEN stats1[primaryKey]
              ELSE IF primaryKey \in DOMAIN st.builtinProps
                   THEN st.builtinProps[primaryKey]
                   ELSE emptyObject
      row1 == IF isTruthy(row0, secondaryKey) THEN row0 ELSE setProp(row0, secondaryKey, 0)
      row2 == setProp(row1, secondaryKey, incremented(row1, secondaryKey))
  IN IF own
     THEN [stats |-> setProp(stats1, primaryKey, row2), builtinProps |-> st.builtinProps]
     ELSE [stats |-> stats1, builtinProps |-> setProp(st.builtinProps, primaryKey, row2)]

RECURSIVE aggregateRawStats(_, _, _, _)
\* the table after the first k records of a stream
aggregateRawStats(records, k, cfg, nowMs) ==
  IF k = 0
  THEN [stats |-> emptyObject, builtinProps |-> emptyObject]
  ELSE aggregateItem(aggregateRawStats(records, k - 1, cfg, nowMs), records[k], cfg, nowMs)

\* aggregateData: the index of the bucket a record is counted in, for
\* now = Math.floor(Date.now() / 1000) and the buckets sorted ascending
RECURSIVE bucketIndexFrom(_, _, _, _)
bucketIndexFrom(nowSec, time, sorted, i) ==
  IF i > Len(sorted) THEN Len(sorted) + 1
  ELSE IF time >= nowSec - sorted[i] * 24 * 60 * 60 THEN i
  ELSE bucketIndexFrom(nowSec, time, sorted, i + 1)

bucketIndex(nowMs, time, dayBuckets) ==
  bucketIndexFrom(nowMs \div MsPerSecond, time, SortSeq(dayBuckets, LAMBDA a, b : a < b), 1)

\* records of blamed lines; times are seconds, ten days before the run, one
\* and seven days before it to the second, and a second earlier than those
RecordUniverse ==
  { [repoName |-> "app", filePath |-> "a.ts", lang |-> ".ts", user |-> "alice", time |-> 9 * SecondsPerDay],
    [repoName |-> "app", filePath |-> "a.ts", lang |-> ".ts", user |-> "bob", time |-> 9 * SecondsPerDay - 1],
    [repoName |-> "lib", filePath |-> "b.md", lang |-> ".md", user |-> "alice", time |-> 3 * SecondsPerDay],
    [repoName |-> "lib", filePath |-> "LICENSE", lang |-> "Other", user |-> "bob", time |-> 3 * SecondsPerDay - 1],
    [repoName |-> "constructor", filePath |-> "c.ts", lang |-> ".ts", user |-> "alice", time |-> 10 * SecondsPerDay],
    [repoName |-> "app", filePath |-> "a.ts", lang |-> ".ts", user |-> "toString", time |-> 9 * SecondsPerDay] }

RecordInputs == UNION {[1..n -> RecordUniverse] : n \in 0..MaxRecords}

\* grouping dimensions; the day buckets come sorted from the command line
\* and as they are from a config file
Configs ==
  [groupBy : {"user", "repo", "lang"}, thenBy : {"repo", "lang"}, dayBuckets : {<<7, 30>>}]
  \cup [groupBy : {"user", "repo", "lang"}, thenBy : {"date"},
        dayBuckets : {<<1, 7>>, <<7>>, <<7, 1>>}]

\* aggregateRawStats(statStream, config) over a stream that delivers its
\* records and then ends or throws; the run starts ten days after the epoch
\* of the record times, on the second or half a second later
InitAggregate ==
  /\ statStream \in RecordInputs
  /\ streamEnd \in {"done", "throws"}
  /\ consumed = 0
  /\ config \in Configs
  /\ now \in {10 * SecondsPerDay * MsPerSecond, 10 * SecondsPerDay * MsPerSecond + 500}
  /\ stats = emptyObject
  /\ builtinProps = emptyObject
  /\ aggPc = "consuming"
  /\ outsideAggIdle

\* one iteration of the for-await loop
AggregateRecord ==
  /\ aggPc = "consuming"
  /\ consumed < Len(statStream)
  /\ LET st == aggregateItem([stats |-> stats, builtinProps |-> builtinProps],
                             statStream[consumed + 1], config, now)
     IN /\ stats' = st.stats
        /\ builtinProps' = st.builtinProps
  /\ consumed' = consumed + 1
  /\ UNCHANGED <<statStream, streamEnd, config, now, aggPc>>
  /\ UNCHANGED outsideAgg

\* the stream is exhausted: return stats
AggregateReturn ==
  /\ aggPc = "consuming"
  /\ consumed = Len(statStream)
  /\ streamEnd = "done"
  /\ aggPc' = "returned"
  /\ UNCHANGED <<statStream, streamEnd, consumed, config, now, stats, builtinProps>>
  /\ UNCHANGED outsideAgg

\* the stream throws: the for-await loop throws and the promise of
\* aggregateRawStats is rejected; stats is not returned
AggregateThrow ==
  /\ aggPc = "consuming"
  /\ consumed = Len(statStream)
  /\ streamEnd = "throws"
  /\ aggPc' = "rejected"
  /\ UNCHANGED <<statStream, streamEnd, consumed, config, now, stats, builtinProps>>
  /\ UNCHANGED outsideAgg

NextAggregate == AggregateRecord \/ AggregateReturn \/ AggregateThrow

SpecAggregate == InitAggregate /\ [][NextAggregate]_vars

----------------------------------------------------------------------------
(* Properties of the aggregators *)

\* the keys of a record under the run's configuration
primaryKeyOf(item) == itemProperty(item, config.groupBy)

secondaryKeyOf(item) == getSecondaryKey(item, config, now)

\* the count the table shows for a key pair; a cell it does not have is 0
cell(table, pk, sk) ==
  IF pk \in DOMAIN table /\ sk \in DOMAIN table[pk] THEN table[pk][sk] ELSE 0

\* the key pairs of the table's cells
cellsOf(table) == {<<pk, sk>> \in UNION {{pk1} \X DOMAIN table[pk1] : pk1 \in DOMAIN table} : TRUE}

RECURSIVE sumCells(_, _)
sumCells(table, cells) ==
  IF cells = {} THEN 0
  ELSE LET c == CHOOSE x \in cells : TRUE
       IN table[c[1]][c[2]] + sumCells(table, cells \ {c})

\* the consumed records with a key pair
consumedWith(pk, sk) ==
  {i \in 1..consumed : primaryKeyOf(statStream[i]) = pk /\ secondaryKeyOf(statStream[i]) = sk}

\* C16: after any prefix of the stream every cell is the number of consumed
\* records with its key pair, a key pair without a cell has no consumed
\* record, and the cells sum to the number of records consumed, whatever
\* strings the keys are.
CellCounts ==
  /\ \A i \in 1..consumed :
       cell(stats, primaryKeyOf(statStream[i]), secondaryKeyOf(statStream[i]))
         = Cardinality(consumedWith(primaryKeyOf(statStream[i]), secondaryKeyOf(statStream[i])))
  /\ \A c \in cellsOf(stats) : stats[c[1]][c[2]] = Cardinality(consumedWith(c[1], c[2]))
  /\ sumCells(stats, cellsOf(stats)) = consumed

isAscending(buckets) == \A j, k \in 1..Len(buckets) : j < k => buckets[j] < buckets[k]

\* age of a record against a boundary of d days, in milliseconds
ageMs(item) == now - item.time * MsPerSecond

daysMs(d) == d * SecondsPerDay * MsPerSecond

\* the key the bucketing rule gives a record: the first boundary that is not
\* below its age, "Older" past the last one
ruleKey(item) ==
  IF \E k \in 1..Len(config.dayBuckets) : ageMs(item) <= daysMs(config.dayBuckets[k])
  THEN LET k == CHOOSE k \in 1..Len(config.dayBuckets) :
                  /\ ageMs(item) <= daysMs(config.dayBuckets[k])
                  /\ \A j \in 1..(k - 1) : ageMs(item) > daysMs(config.dayBuckets[j])
       IN "Last " \o ToString(config.dayBuckets[k]) \o " days"
  ELSE "Older"

\* the same rule for aggregateData, whose now is cut to the second
ruleIndex(item) ==
  LET ageSec == now \div MsPerSecond - item.time
      fits == {k \in 1..Len(config.dayBuckets) : ageSec <= config.dayBuckets[k] * SecondsPerDay}
  IN IF fits = {} THEN Len(config.dayBuckets) + 1
     ELSE CHOOSE k \in fits : \A j \in fits : k <= j

\* C17: with thenBy = date and ascending day buckets every consumed record is
\* keyed by the first boundary that is not below its age (a record exactly d
\* days old by d itself), or by "Older" when it is older than every
\* boundary; the table has no other date key; aggregateData counts the
\* record in the bucket of the same rule.
DateBucketing ==
  (config.thenBy = "date" /\ isAscending(config.dayBuckets)) =>
    /\ \A i \in 1..consumed : secondaryKeyOf(statStream[i]) = ruleKey(statStream[i])
    /\ \A c \in cellsOf(stats) : \E i \in 1..consumed : c[2] = ruleKey(statStream[i])
    /\ \A i \in 1..consumed :
         bucketIndex(now, statStream[i].time, config.dayBuckets) = ruleIndex(statStream[i])

DateBucketingWitness ==
  /\ config.thenBy = "date"
  /\ config.dayBuckets = <<1, 7>>
  /\ consumed = MaxRecords
  /\ \E i \in 1..consumed : ageMs(statStream[i]) = daysMs(1)
  /\ \E i \in 1..consumed : ageMs(statStream[i]) = daysMs(7)
  /\ \E i \in 1..consumed : ageMs(statStream[i]) > daysMs(7)
  /\ \E pk \in DOMAIN stats : DOMAIN stats[pk] = {"Last 1 days", "Last 7 days", "Older"}

\* the rearrangements of a list
permutationsOf(records) ==
  { [k \in 1..Len(records) |-> records[p[k]]] :
      p \in {q \in [1..Len(records) -> 1..Len(records)] :
               \A j, k \in 1..Len(records) : j # k => q[j] # q[k]} }

UpstreamFailureKeepsPartial ==
  /\ aggPc # "rejected"
  /\ (aggPc = "returned" /\ streamEnd = "throws") =>
       stats = aggregateRawStats(statStream, consumed, config, now).stats

----------------------------------------------------------------------------
(* main and gatherStatsForRepo of the synchronous analyzer *)

\* most repositories of a run
MaxRepos == 2

\* most files of a repository
MaxRepoFiles == 2

\* most SIGINTs a run receives
MaxSignals == 2

\* what git blame gives for a file: it fails, or it gives one or two lines
FileUniverse == {"fails", "one line", "two lines"}

RepoUniverse == UNION {[1..n -> FileUniverse] : n \in 0..MaxRepoFiles}

\* the records of getLineBlameForFile for file f of repository r
fileData(r, f, file) ==
  CASE file = "fails" -> <<>>
    [] file = "one line" -> << <<r, f, 1>> >>
    [] file = "two lines" -> << <<r, f, 1>>, <<r, f, 2>> >>

InitLegacy ==
  /\ repos \in UNION {[1..n -> RepoUniverse] : n \in 1..MaxRepos}
  /\ repoIdx = 1
  /\ fileIdx = 1
  /\ repoData = <<>>
  /\ allData = <<>>
  /\ extracted = {}
  /\ signals = 0
  /\ pending = 0
  /\ sigintCaught = FALSE
  /\ reported = FALSE
  /\ legacyPc = "main"
  /\ outsideLegacyIdle

\* main's loop resets the flag and calls gatherStatsForRepo, which finds the
\* repository and lists its files
LegacyListFiles ==
  /\ legacyPc = "main"
  /\ repoIdx <= Len(repos)
  /\ sigintCaught' = FALSE
  /\ repoData' = <<>>
  /\ fileIdx' = 1
  /\ legacyPc' = "files"
  /\ UNCHANGED <<repos, repoIdx, allData, extracted, signals, pending, reported>>
  /\ UNCHANGED outsideLegacy

\* a SIGINT kills git rev-parse or git ls-files: execSync throws with
\* signal SIGINT, gatherStatsForRepo returns skipped and main continues with
\* the next repository; the handler call is queued
LegacyListInterrupted ==
  /\ legacyPc = "main"
  /\ repoIdx <= Len(repos)
  /\ signals < MaxSignals
  /\ signals' = signals + 1
  /\ pending' = pending + 1
  /\ sigintCaught' = FALSE
  /\ repoIdx' = repoIdx + 1
  /\ UNCHANGED <<repos, fileIdx, repoData, allData, extracted, reported, legacyPc>>
  /\ UNCHANGED outsideLegacy

\* one iteration of the loop over the files: the file's records are pushed,
\* a file whose blame fails is skipped
LegacyBlameFile ==
  /\ legacyPc = "files"
  /\ fileIdx <= Len(repos[repoIdx])
  /\ LET data == fileData(repoIdx, fileIdx, repos[repoIdx][fileIdx])
     IN /\ repoData' = repoData \o data
        /\ extracted' = extracted \cup {data[k] : k \in 1..Len(data)}
  /\ fileIdx' = fileIdx + 1
  /\ UNCHANGED <<repos, repoIdx, allData, signals, pending, sigintCaught, reported, legacyPc>>
  /\ UNCHANGED outsideLegacy

\* a SIGINT kills git blame: the catch returns { data: [], skipped: true }
\* and main continues with the next repository; the handler call is queued
LegacyBlameInterrupted ==
  /\ legacyPc = "files"
  /\ fileIdx <= Len(repos[repoIdx])
  /\ signals < MaxSignals
  /\ signals' = signals + 1
  /\ pending' = pending + 1
  /\ repoData' = <<>>
  /\ repoIdx' = repoIdx + 1
  /\ legacyPc' = "main"
  /\ UNCHANGED <<repos, fileIdx, allData, extracted, sigintCaught, reported>>
  /\ UNCHANGED outsideLegacy

\* the loop over the files ends: the repository's records are returned and
\* main appends them
LegacyRepoDone ==
  /\ legacyPc = "files"
  /\ fileIdx > Len(repos[repoIdx])
  /\ allData' = allData \o repoData
  /\ repoIdx' = repoIdx + 1
  /\ legacyPc' = "main"
  /\ UNCHANGED <<repos, fileIdx, repoData, extracted, signals, pending, sigintCaught, reported>>
  /\ UNCHANGED outsideLegacy

\* a SIGINT arrives while no git command runs: main is synchronous, so the
\* handler call is queued until main has returned, and the tests of the flag
\* in gatherStatsForRepo find it as the loop of main has reset it
LegacySigintQueued ==
  /\ legacyPc \in {"main", "files"}
  /\ signals < MaxSignals
  /\ signals' = signals + 1
  /\ pending' = pending + 1
  /\ UNCHANGED <<repos, repoIdx, fileIdx, repoData, allData, extracted, sigintCaught, reported, legacyPc>>
  /\ UNCHANGED outsideLegacy

\* main's loop ends: the interruption is reported if the flag is set, then
\* allData is aggregated and written
LegacyOutput ==
  /\ legacyPc = "main"
  /\ repoIdx > Len(repos)
  /\ reported' = sigintCaught
  /\ legacyPc' = "done"
  /\ UNCHANGED <<repos, repoIdx, fileIdx, repoData, allData, extracted, signals, pending, sigintCaught>>
  /\ UNCHANGED outsideLegacy

\* the SIGINT handler, called for a queued signal once main has returned
LegacySigintHandler ==
  /\ legacyPc = "done"
  /\ pending > 0
  /\ pending' = pending - 1
  /\ IF sigintCaught
     THEN legacyPc' = "exit 130" /\ UNCHANGED sigintCaught
     ELSE sigintCaught' = TRUE /\ UNCHANGED legacyPc
  /\ UNCHANGED <<repos, repoIdx, fileIdx, repoData, allData, extracted, signals, reported>>
  /\ UNCHANGED outsideLegacy

NextLegacy ==
  \/ LegacyListFiles
  \/ LegacyListInterrupted
  \/ LegacyBlameFile
  \/ LegacyBlameInterrupted
  \/ LegacyRepoDone
  \/ LegacySigintQueued
  \/ LegacyOutput
  \/ LegacySigintHandler

SpecLegacy == InitLegacy /\ [][NextLegacy]_vars

\* C19: cancellation keeps partial results: the record list that the run
\* aggregates holds every record that was extracted before the interrupt;
\* nothing accumulated is discarded.
CancellationKeepsPartial ==
  legacyPc = "done" => \A rec \in extracted : \E k \in 1..Len(allData) : allData[k] = rec

\* C24: a run that received a SIGINT before its output reports that the
\* analysis was interrupted, and a run that received none does not.
PartialOutputIsMarked ==
  legacyPc = "done" => (reported <=> signals > 0)

\* C25: the first SIGINT does not end the process, and a run that has
\* received a second SIGINT has been ended with status 130: it does not go
\* on to its output.
TwoStepSigint ==
  /\ legacyPc = "exit 130" => signals >= 2
  /\ signals >= 2 => legacyPc # "done"

----------------------------------------------------------------------------
(* The cluster bounds of getRepositoryFiles (cli/src/index.ts) *)

\* largest generated number of files of a repository
MaxFileCount == 3000

\* a quotient a / b of two numbers, kept as the pair
ratio(a, b) == [num |-> a, den |-> b]

\* Math.max of two non-negative quotients
MathMax(p, q) == IF p.num * q.den >= q.num * p.den THEN p ELSE q

\* Math.min of two non-negative quotients
MathMin(p, q) == IF p.num * q.den <= q.num * p.den THEN p ELSE q

\* Math.floor of a non-negative quotient
MathFloor(q) == q.num \div q.den

\* Math.round of a non-negative quotient: halves go up
MathRound(q) == (2 * q.num + q.den) \div (2 * q.den)

\* Math.floor(Math.max(2, files.length / 100))
minClusterSizeFor(n) == MathFloor(MathMax(ratio(2, 1), ratio(n, 100)))

\* variant of maxClusterSizeFor: the smaller of 20 and files.length / 30
maxClusterSizeCapped(n) == MathRound(MathMin(ratio(20, 1), ratio(n, 30)))

\* Math.round(Math.max(20, files.length / 30))
maxClusterSizeFor(n) == MathRound(MathMax(ratio(20, 1), ratio(n, 30)))

\* git_ls_files has returned fileCount files
InitBounds ==
  /\ fileCount \in 0..MaxFileCount
  /\ minClusterSize = 0
  /\ maxClusterSize = 0
  /\ boundsPc = "listed"
  /\ outsideBoundsIdle

\* the two bounds are computed and handed to clusterFiles
ComputeBounds ==
  /\ boundsPc = "listed"
  /\ minClusterSize' = minClusterSizeFor(fileCount)
  /\ maxClusterSize' = maxClusterSizeFor(fileCount)
  /\ boundsPc' = "clustering"
  /\ UNCHANGED fileCount
  /\ UNCHANGED outsideBounds

NextBounds == ComputeBounds

SpecBounds == InitBounds /\ [][NextBounds]_vars

\* C29: for every file count the bounds handed to clusterFiles satisfy
\* 2 <= minClusterSize <= maxClusterSize and maxClusterSize >= 20; they are
\* the floor of max(2, n/100) and the rounding of max(20, n/30).
BoundsOrdered ==
  boundsPc = "clustering" =>
    /\ 2 <= minClusterSize
    /\ minClusterSize <= maxClusterSize
    /\ maxClusterSize >= 20
    /\ minClusterSize * 100 <= fileCount \/ minClusterSize = 2
    /\ (minClusterSize + 1) * 100 > fileCount
    /\ 2 * 30 * maxClusterSize <= 2 * fileCount + 30 \/ maxClusterSize = 20
    /\ 2 * 30 * (maxClusterSize + 1) > 2 * fileCount + 30

BoundsOrderedWitness ==
  /\ boundsPc = "clustering"
  /\ fileCount = MaxFileCount
  /\ minClusterSize > 20
  /\ maxClusterSize > minClusterSize

----------------------------------------------------------------------------
(* execAsync (src/util/exec.ts) *)

\* longest generated output of the child, in characters
MaxChars == 3

\* A string is the sequence of its characters, a chunk the sequence of its
\* bytes.  The characters are a letter, the newline, a letter of two bytes
\* in UTF-8 (U+00E9) and the replacement character U+FFFD that decoding
\* puts where the bytes are not a whole character.
utf8(char) ==
  CASE char = "a" -> <<"61">>
    [] char = "\n" -> <<"0A">>
    [] char = "U+00E9" -> <<"C3", "A9">>

RECURSIVE encode(_)
\* the bytes the child writes for a text
encode(text) == IF text = <<>> THEN <<>> ELSE utf8(Head(text)) \o encode(Tail(text))

RECURSIVE toString(_)
\* data.toString(): the UTF-8 decoding of one chunk on its own
toString(bytes) ==
  IF bytes = <<>> THEN <<>>
  ELSE CASE Head(bytes) = "61" -> <<"a">> \o toString(Tail(bytes))
         [] Head(bytes) = "0A" -> <<"\n">> \o toString(Tail(bytes))
         [] Head(bytes) = "C3" ->
              IF Len(bytes) >= 2 /\ bytes[2] = "A9"
              THEN <<"U+00E9">> \o toString(Tail(Tail(bytes)))
              ELSE <<"U+FFFD">> \o toString(Tail(bytes))
         [] Head(bytes) = "A9" -> <<"U+FFFD">> \o toString(Tail(bytes))

RECURSIVE split(_)
\* text.split('\n')
split(text) ==
  IF \A k \in 1..Len(text) : text[k] # "\n"
  THEN <<text>>
  ELSE LET k == CHOOSE i \in 1..Len(text) :
                  text[i] = "\n" /\ \A j \in 1..(i - 1) : text[j] # "\n"
       IN <<SubSeq(text, 1, k - 1)>> \o split(SubSeq(text, k + 1, Len(text)))

RECURSIVE chunksOf(_, _, _)
\* the bytes from position k on, cut after every position in cuts
chunksOf(bytes, cuts, k) ==
  IF k > Len(bytes) THEN <<>>
  ELSE LET ends == {c \in cuts : c >= k} \cup {Len(bytes)}
           e == CHOOSE c \in ends : \A d \in ends : c <= d
       IN <<SubSeq(bytes, k, e)>> \o chunksOf(bytes, cuts, e + 1)

Texts == UNION {[1..n -> {"a", "\n", "U+00E9"}] : n \in 0..MaxChars}

\* the child writes a text; the pipe delivers its bytes in chunks cut
\* anywhere
InitExec ==
  /\ \E text \in Texts :
       \E cuts \in SUBSET (1..(Len(encode(text)) - 1)) :
         chunks = chunksOf(encode(text), cuts, 1)
  /\ delivered = 0
  /\ exitCode \in {0, 1}
  /\ stdout = <<>>
  /\ stdoutBuffer = <<>>
  /\ execPc = "running"
  /\ outsideExecIdle

\* the 'data' handler of child.stdout
ExecData ==
  /\ execPc = "running"
  /\ delivered < Len(chunks)
  /\ LET lines == split(stdoutBuffer \o toString(chunks[delivered + 1]))
     IN /\ stdout' = stdout \o SubSeq(lines, 1, Len(lines) - 1)
        /\ stdoutBuffer' = lines[Len(lines)]
  /\ delivered' = delivered + 1
  /\ UNCHANGED <<chunks, exitCode, execPc>>
  /\ UNCHANGED outsideExec

\* the 'close' handler: the unfinished line is pushed if it is not empty;
\* code 0 resolves with the lines, another code rejects
ExecClose ==
  /\ execPc = "running"
  /\ delivered = Len(chunks)
  /\ stdout' = IF Len(stdoutBuffer) > 0 THEN Append(stdout, stdoutBuffer) ELSE stdout
  /\ execPc' = IF exitCode = 0 THEN "resolved" ELSE "rejected"
  /\ UNCHANGED <<chunks, delivered, exitCode, stdoutBuffer>>
  /\ UNCHANGED outsideExec

NextExec == ExecData \/ ExecClose

SpecExec == InitExec /\ [][NextExec]_vars

RECURSIVE concat(_)
concat(seqs) == IF seqs = <<>> THEN <<>> ELSE Head(seqs) \o concat(Tail(seqs))

\* a line list without its trailing empty element
withoutTrailingEmpty(lines) ==
  IF lines # <<>> /\ lines[Len(lines)] = <<>>
  THEN SubSeq(lines, 1, Len(lines) - 1)
  ELSE lines

\* C30: however the bytes are cut into chunks, execAsync resolves with the
\* whole output split on newline without a trailing empty element.
ChunkIndependent ==
  execPc = "resolved" =>
    stdout = withoutTrailingEmpty(split(toString(concat(chunks))))

----------------------------------------------------------------------------
(* parseArgs (cli/parseArgs.ts) and loadConfig (input/config.ts) *)

\* A property is a record: given tells whether it has a value (it is not
\* undefined), value is the value, or a filler of the property's type.
some(v) == [given |-> TRUE, value |-> v]

undefinedString == [given |-> FALSE, value |-> ""]

undefinedArray == [given |-> FALSE, value |-> <<>>]

\* a ?? b
nullish(a, b) == IF a.given THEN a ELSE b

\* a?.length ? a : b
ifLength(a, b) == IF a.given /\ Len(a.value) > 0 THEN a ELSE b

\* the option names of the model
stringOptions == {"groupBy", "thenBy", "outputFormat", "cacheFile"}

arrayOptions == {"dayBuckets", "additionalRepoPaths", "filenameGlobs"}

\* the value an option can be given on the command line
cliValue ==
  [groupBy |-> some("repo"), thenBy |-> some("lang"), outputFormat |-> some("html"),
   cacheFile |-> some("cli.jsonl"), dayBuckets |-> some(<<1, 7>>),
   additionalRepoPaths |-> some(<<"../cli-repo">>), filenameGlobs |-> some(<<"*.ts">>)]

\* the value an option can have in the config file
fileValue ==
  [groupBy |-> some("lang"), thenBy |-> some("repo"), outputFormat |-> some("html"),
   cacheFile |-> some("file.jsonl"), dayBuckets |-> some(<<30, 90>>),
   additionalRepoPaths |-> some(<<"../file-repo">>), filenameGlobs |-> some(<<"*.md">>)]

undefinedOption(o) == IF o \in stringOptions THEN undefinedString ELSE undefinedArray

\* the options with any subset of them given
optionSets(values) ==
  { [o \in stringOptions \cup arrayOptions |->
       IF o \in given THEN values[o] ELSE undefinedOption(o)] :
    given \in SUBSET (stringOptions \cup arrayOptions) }

\* parseArgs: result starts with its preset values and every option of the
\* command line overwrites its property
parseArgs(cli) ==
  [groupBy |-> nullish(cli.groupBy, some("user")),
   thenBy |-> nullish(cli.thenBy, some("date")),
   outputFormat |-> nullish(cli.outputFormat, some("csv")),
   cacheFile |-> cli.cacheFile,
   dayBuckets |-> nullish(cli.dayBuckets, some(<<7, 30, 180, 365>>)),
   additionalRepoPaths |-> nullish(cli.additionalRepoPaths, some(<<>>)),
   filenameGlobs |-> nullish(cli.filenameGlobs, some(<<>>))]

\* loadConfig: the merged Config
loadConfig(a, f) ==
  [groupBy |-> nullish(a.groupBy, nullish(f.groupBy, some("user"))),
   thenBy |-> nullish(a.thenBy, nullish(f.thenBy, some("date"))),
   outputFormat |-> nullish(a.outputFormat, nullish(f.outputFormat, some("csv"))),
   cacheFile |-> nullish(a.cacheFile, nullish(f.cacheFile, some(".gitstats-cache.jsonl"))),
   dayBuckets |-> ifLength(a.dayBuckets, nullish(f.dayBuckets, some(<<7, 30, 180, 365>>))),
   additionalRepoPaths |->
     nullish(a.additionalRepoPaths, nullish(f.additionalRepoPaths, some(<<>>))),
   filenameGlobs |-> ifLength(a.filenameGlobs, nullish(f.filenameGlobs, some(<<>>)))]

InitConfig ==
  /\ cliOptions \in optionSets(cliValue)
  /\ fileCfg \in optionSets(fileValue)
  /\ args = <<>>
  /\ merged = <<>>
  /\ configPc = "start"
  /\ outsideConfigIdle

\* const args = parseArgs()
ParseArgs ==
  /\ configPc = "start"
  /\ args' = parseArgs(cliOptions)
  /\ configPc' = "parsed"
  /\ UNCHANGED <<cliOptions, fileCfg, merged>>
  /\ UNCHANGED outsideConfig

\* const config = loadConfig(args)
LoadConfig ==
  /\ configPc = "parsed"
  /\ merged' = loadConfig(args, fileCfg)
  /\ configPc' = "loaded"
  /\ UNCHANGED <<cliOptions, fileCfg, args>>
  /\ UNCHANGED outsideConfig

NextConfig == ParseArgs \/ LoadConfig

SpecConfig == InitConfig /\ [][NextConfig]_vars

\* the built-in default of an option
builtinDefault ==
  [groupBy |-> some("user"), thenBy |-> some("date"), outputFormat |-> some("csv"),
   cacheFile |-> some(".gitstats-cache.jsonl"), dayBuckets |-> some(<<7, 30, 180, 365>>),
   additionalRepoPaths |-> some(<<>>), filenameGlobs |-> some(<<>>)]

\* C27: option by option the merged value is the one of the command line if
\* the option was given there, otherwise the one of the config file if it
\* has one, otherwise the built-in default.
CommandLineThenFileThenDefault ==
  configPc = "loaded" =>
    \A o \in stringOptions \cup arrayOptions :
      merged[o] = nullish(cliOptions[o], nullish(fileCfg[o], builtinDefault[o]))

----------------------------------------------------------------------------
(* extractRawStatsForFile: git blame --line-porcelain and its parsers *)

MaxBlameLines == 3

\* the commits of the model with their author and committer time
commitInfo ==
  [aaaa |-> [author |-> "Alice Doe", time |-> 1700000000],
   bbbb |-> [author |-> "Bob Smith", time |-> 1700100000]]

\* the texts a source line can have: some text, nothing, or blanks only
LineTexts == {"Line", "", "  "}

\* white space only, as String.prototype.trim sees it
isWhitespace(text) == text \in {"", "  "}

\* a blamed file: its source lines in order, each with its text and the
\* commit it is attributed to
BlamedFiles ==
  UNION { [1..n -> [commit : DOMAIN commitInfo, text : LineTexts]] : n \in 1..MaxBlameLines }

\* the lines git blame --line-porcelain prints for one source line
porcelainOfLine(l) ==
  << [kind |-> "header", value |-> l.commit],
     [kind |-> "author", value |-> commitInfo[l.commit].author],
     [kind |-> "committer-time", value |-> commitInfo[l.commit].time],
     [kind |-> "filename", value |-> "example.txt"],
     [kind |-> "\t", value |-> l.text] >>

\* the output of git blame --line-porcelain, line by line, every line
\* followed by a line feed
RECURSIVE executeGitBlamePorcelain(_)
executeGitBlamePorcelain(file) ==
  IF file = <<>> THEN <<>>
  ELSE porcelainOfLine(Head(file)) \o executeGitBlamePorcelain(Tail(file))

\* a line of the output that is white space only: a tab followed by blanks
isBlankLine(line) == line.kind = "\t" /\ isWhitespace(line.value)

\* blameOutput.trim().split('\n'): trim takes the white space off the end of
\* the output, line feeds and the blank lines between them included
RECURSIVE trimSplit(_)
trimSplit(output) ==
  IF output = <<>> THEN <<>>
  ELSE IF isBlankLine(output[Len(output)])
       THEN trimSplit(SubSeq(output, 1, Len(output) - 1))
       ELSE output

InitBlame ==
  /\ blame \in BlamedFiles
  /\ parser \in {"generator", "array"}
  /\ blameLines = <<>>
  /\ lineIdx = 0
  /\ currentUser = ""
  /\ currentTime = 0
  /\ lineStats = <<>>
  /\ blamePc = "start"
  /\ outsideBlameIdle

\* const blameOutput = execSync(...).toString();
\* const blameLines = blameOutput.trim().split('\n');
BlameExec ==
  /\ blamePc = "start"
  /\ blameLines' = trimSplit(executeGitBlamePorcelain(blame))
  /\ lineIdx' = 1
  /\ blamePc' = "lines"
  /\ UNCHANGED <<blame, parser, currentUser, currentTime, lineStats>>
  /\ UNCHANGED outsideBlame

\* one turn of the loop of the generator: a content line yields only with a
\* truthy current user and current time
BlameLineGenerator ==
  /\ blamePc = "lines"
  /\ parser = "generator"
  /\ lineIdx <= Len(blameLines)
  /\ LET line == blameLines[lineIdx] IN
       /\ currentUser' = IF line.kind = "author" THEN line.value ELSE currentUser
       /\ currentTime' = IF line.kind = "committer-time" THEN line.value ELSE currentTime
       /\ lineStats' =
            IF line.kind = "\t" /\ currentUser # "" /\ currentTime # 0
            THEN Append(lineStats, [user |-> currentUser, time |-> currentTime])
            ELSE lineStats
  /\ lineIdx' = lineIdx + 1
  /\ UNCHANGED <<blame, parser, blameLines, blamePc>>
  /\ UNCHANGED outsideBlame

\* one turn of the loop of the array-returning parser
BlameLineArray ==
  /\ blamePc = "lines"
  /\ parser = "array"
  /\ lineIdx <= Len(blameLines)
  /\ LET line == blameLines[lineIdx] IN
       /\ currentUser' = IF line.kind = "author" THEN line.value ELSE currentUser
       /\ currentTime' = IF line.kind = "committer-time" THEN line.value ELSE currentTime
       /\ lineStats' =
            IF line.kind = "\t"
            THEN Append(lineStats, [user |-> currentUser, time |-> currentTime])
            ELSE lineStats
  /\ lineIdx' = lineIdx + 1
  /\ UNCHANGED <<blame, parser, blameLines, blamePc>>
  /\ UNCHANGED outsideBlame

\* the loop is over: the generator returns, the array is returned
BlameDone ==
  /\ blamePc = "lines"
  /\ lineIdx > Len(blameLines)
  /\ blamePc' = "done"
  /\ UNCHANGED <<blame, parser, blameLines, lineIdx, currentUser, currentTime, lineStats>>
  /\ UNCHANGED outsideBlame

NextBlame == BlameExec \/ BlameLineGenerator \/ BlameLineArray \/ BlameDone

SpecBlame == InitBlame /\ [][NextBlame]_vars

\* C23: the parser's records are one per source line of the file, in line
\* order, each with the author and committer time of the commit the line is
\* attributed to.
OneRecordPerSourceLine ==
  blamePc = "done" =>
    lineStats = [i \in 1..Len(blame) |->
                   [user |-> commitInfo[blame[i].commit].author,
                    time |-> commitInfo[blame[i].commit].time]]

----------------------------------------------------------------------------
(* runScan (cli/src/index.ts): getRepositoryFiles, doProcessFile and the
   flatMap pipeline in front of distinctCount, for one repository *)

\* largest number of files in the directory a/b
MaxDirFiles == 19

\* largest number of files in its sibling directory a/bc
MaxSiblingFiles == 2

\* blamed lines of a file that git blame succeeds on
LinesPerFile == 2

\* file names in sorted order
FileNames ==
  << "G00.java", "G01.java", "G02.java", "G03.java", "G04.java", "G05.java",
     "G06.java", "G07.java", "G08.java", "G09.java", "G10.java", "G11.java",
     "G12.java", "G13.java", "G14.java", "G15.java", "G16.java", "G17.java",
     "G18.java", "G19.java", "G20.java" >>

\* git ls-files of a repository with k files in a/b and m files in a/bc,
\* in the order git lists them
lsFilesOf(k, m) ==
  [i \in 1..(k + m) |->
     IF i <= k THEN <<"a", "b", FileNames[i]>> ELSE <<"a", "bc", FileNames[i - k]>>]

Repositories ==
  { lsFilesOf(k, m) : k \in {1, MaxDirFiles}, m \in 0..MaxSiblingFiles }

RECURSIVE joined(_)
\* the string form of a path: its segments joined by "/"
joined(path) ==
  IF path = <<>> THEN ""
  ELSE IF Len(path) = 1 THEN path[1]
  ELSE joined(SubSeq(path, 1, Len(path) - 1)) \o "/" \o path[Len(path)]

\* file.startsWith(it) on strings
startsWith(file, it) == Len(it) <= Len(file) /\ SubSeq(file, 1, Len(it)) = it

\* clusterPaths.find(it => file.startsWith(it)) ?? "$$$unknown$$$"
clusterPath(clusters, file) ==
  IF \E k \in 1..Len(clusters) : startsWith(joined(file), joined(clusters[k].path))
  THEN joined(clusters[CHOOSE k \in 1..Len(clusters) :
                 /\ startsWith(joined(file), joined(clusters[k].path))
                 /\ \A j \in 1..(k - 1) :
                      ~startsWith(joined(file), joined(clusters[j].path))].path)
  ELSE "$$$unknown$$$"

\* git_blame_porcelain of a file: the promise is rejected when git blame
\* fails on the file
git_blame_porcelain(file, fail) ==
  IF fail.path = file /\ fail.kind = "blame" THEN "rejected" ELSE "resolved"

\* the rows doProcessFile returns for a file: none when stat fails, else one
\* per blamed line; a row has no time and no cluster property
doProcessFile(file, fail) ==
  IF fail.path = file /\ fail.kind = "stat"
  THEN <<>>
  ELSE [l \in 1..LinesPerFile |->
          [repo |-> "repo", file |-> file, line |-> l,
           author |-> IF l = 1 THEN "Alice Doe" ELSE "Bob Smith",
           lang |-> ".java"]]

\* it => [it.author, it.time, it.lang, it.cluster, it.repo]
asTuple(it) ==
  << jsString(it.author), jsUndefined, jsString(it.lang), jsUndefined, jsString(it.repo) >>

\* variant of flatMapPulls: the next element is pulled while a sub-stream is
\* still being drained
flatMapPullsAhead(flights) == Len(flights) <= 1

\* for await (const item of items) { yield* mapper(item); }: the next element
\* is pulled when the sub-stream of the one before is done
flatMapPulls(flights) == flights = <<>>

InitScan ==
  /\ lsFiles \in Repositories
  /\ failure \in {[path |-> <<>>, kind |-> "none"]}
                   \cup [path : {lsFiles[1], lsFiles[Len(lsFiles)]}, kind : {"stat", "blame"}]
  /\ filesClustered = <<>>
  /\ filesShuffled = <<>>
  /\ yielded = 0
  /\ inFlight = <<>>
  /\ scanRows = <<>>
  /\ scanSigint = FALSE
  /\ scanPc = "start"
  /\ outsideScanIdle

\* getRepositoryFiles up to its loop: the files are listed, clustered with
\* the bounds computed from their number, and shuffled
ScanListFiles ==
  /\ scanPc = "start"
  /\ filesClustered' = clusterFiles(lsFiles, maxClusterSizeFor(Len(lsFiles)),
                                    minClusterSizeFor(Len(lsFiles)))
  /\ filesShuffled' \in {lsFiles, reversed(lsFiles)}
  /\ scanPc' = "files"
  /\ UNCHANGED <<lsFiles, failure, yielded, inFlight, scanRows, scanSigint>>
  /\ UNCHANGED outsideScan

\* flatMap pulls the next file: getRepositoryFiles yields it with its
\* cluster, the mapper calls doProcessFile, and the extraction is in flight
ScanPull ==
  /\ scanPc = "files"
  /\ flatMapPulls(inFlight)
  /\ yielded < Len(filesShuffled)
  /\ ~scanSigint
  /\ yielded' = yielded + 1
  /\ inFlight' = Append(inFlight, [file |-> filesShuffled[yielded + 1], next |-> 1])
  /\ UNCHANGED <<lsFiles, failure, filesClustered, filesShuffled, scanRows, scanSigint, scanPc>>
  /\ UNCHANGED outsideScan

\* a sub-stream yields its next row, which the two maps hand to distinctCount
ScanYield ==
  /\ scanPc = "files"
  /\ \E j \in 1..Len(inFlight) :
       LET rows == doProcessFile(inFlight[j].file, failure) IN
         /\ git_blame_porcelain(inFlight[j].file, failure) = "resolved"
         /\ inFlight[j].next <= Len(rows)
         /\ scanRows' = Append(scanRows,
                               [tuple |-> asTuple(rows[inFlight[j].next]),
                                file |-> inFlight[j].file, line |-> inFlight[j].next])
         /\ inFlight' = [inFlight EXCEPT ![j].next = @ + 1]
  /\ UNCHANGED <<lsFiles, failure, filesClustered, filesShuffled, yielded, scanSigint, scanPc>>
  /\ UNCHANGED outsideScan

\* a sub-stream is done
ScanDrained ==
  /\ scanPc = "files"
  /\ \E j \in 1..Len(inFlight) :
       /\ git_blame_porcelain(inFlight[j].file, failure) = "resolved"
       /\ inFlight[j].next > Len(doProcessFile(inFlight[j].file, failure))
       /\ inFlight' = SubSeq(inFlight, 1, j - 1) \o SubSeq(inFlight, j + 1, Len(inFlight))
  /\ UNCHANGED <<lsFiles, failure, filesClustered, filesShuffled, yielded, scanRows, scanSigint, scanPc>>
  /\ UNCHANGED outsideScan

\* the promise of doProcessFile is rejected: the sub-stream throws, and so
\* do flatMap, the maps, distinctCount and collect; main's catch logs the
\* error and nothing is printed
ScanRejected ==
  /\ scanPc = "files"
  /\ \E j \in 1..Len(inFlight) : git_blame_porcelain(inFlight[j].file, failure) = "rejected"
  /\ scanPc' = "failed"
  /\ UNCHANGED <<lsFiles, failure, filesClustered, filesShuffled, yielded, inFlight, scanRows, scanSigint>>
  /\ UNCHANGED outsideScan

\* getRepositoryFiles leaves its loop, after the last file or on the
\* cancellation flag: distinctCount yields its counts and runScan prints them
ScanOutput ==
  /\ scanPc = "files"
  /\ inFlight = <<>>
  /\ yielded = Len(filesShuffled) \/ scanSigint
  /\ scanPc' = "printed"
  /\ UNCHANGED <<lsFiles, failure, filesClustered, filesShuffled, yielded, inFlight, scanRows, scanSigint>>
  /\ UNCHANGED outsideScan

\* the SIGINT handler of runScan
ScanSigint ==
  /\ scanPc \in {"start", "files"}
  /\ IF scanSigint
     THEN scanPc' = "exit 130" /\ UNCHANGED scanSigint
     ELSE scanSigint' = TRUE /\ UNCHANGED scanPc
  /\ UNCHANGED <<lsFiles, failure, filesClustered, filesShuffled, yielded, inFlight, scanRows>>
  /\ UNCHANGED outsideScan

NextScan ==
  \/ ScanListFiles
  \/ ScanPull
  \/ ScanYield
  \/ ScanDrained
  \/ ScanRejected
  \/ ScanOutput
  \/ ScanSigint

SpecScan == InitScan /\ [][NextScan]_vars

\* the cluster whose file set contains the file
clusterOf(file) ==
  filesClustered[CHOOSE k \in 1..Len(filesClustered) : file \in filesClustered[k].files]

\* C21: every tuple handed to distinctCount has in its cluster field the
\* label getRepositoryFiles assigned to the file the line belongs to.
TupleCarriesCluster ==
  \A k \in 1..Len(scanRows) :
    scanRows[k].tuple[4] = jsString(clusterPath(filesClustered, scanRows[k].file))

\* C28: the label attached to every yielded file is the label of the cluster
\* whose file set contains the file, and never the placeholder.
LabelIsOwnCluster ==
  \A i \in 1..yielded :
    /\ clusterPath(filesClustered, filesShuffled[i]) = joined(clusterOf(filesShuffled[i]).path)
    /\ clusterPath(filesClustered, filesShuffled[i]) # "$$$unknown$$$"

\* C26: a failed extraction does not end the run, and a run that has printed
\* has the rows of every file whose extraction did not fail.
FailedFileIsSkipped ==
  /\ scanPc # "failed"
  /\ scanPc = "printed" /\ ~scanSigint =>
       \A i \in 1..Len(lsFiles) :
         lsFiles[i] # failure.path =>
           \A l \in 1..LinesPerFile :
             \E k \in 1..Len(scanRows) : scanRows[k].file = lsFiles[i] /\ scanRows[k].line = l

\* position of a file in the shuffled list
shuffledIndex(file) == CHOOSE i \in 1..Len(filesShuffled) : filesShuffled[i] = file

\* C22: at most one extraction is in flight, every file yielded before the
\* one in flight is drained, and the rows come file by file in source order,
\* the rows of a file in line order.
StrictlySequential ==
  /\ Len(inFlight) <= 1
  /\ \A j, k \in 1..Len(scanRows) :
       j < k =>
         \/ shuffledIndex(scanRows[j].file) < shuffledIndex(scanRows[k].file)
         \/ /\ scanRows[j].file = scanRows[k].file
            /\ scanRows[j].line < scanRows[k].line
  /\ \A i \in 1..yielded :
       (\A j \in 1..Len(inFlight) : inFlight[j].file # filesShuffled[i]) =>
         \A l \in 1..Len(doProcessFile(filesShuffled[i], failure)) :
           \E k \in 1..Len(scanRows) :
             scanRows[k].file = filesShuffled[i] /\ scanRows[k].line = l

\* the second file is being drained after the rows of the first
StrictlySequentialWitness ==
  /\ scanPc = "files"
  /\ yielded = 2
  /\ Len(inFlight) = 1
  /\ inFlight[1].next = 2
  /\ Len(scanRows) = LinesPerFile + 1

====
